---- MODULE Spec2Model ----
(***************************************************************************)
(* Least-squares residual kernel of src/resid.cpp:                         *)
(*   qr_dense_residop  (HouseholderQR<MatrixXd>)                           *)
(*   qr_sparse_residop (SparseQR<SparseMatrix<double>, COLAMDOrdering>)    *)
(*                                                                         *)
(* Numbers.  The kernel computes in IEEE doubles.  The model computes in   *)
(* exact arithmetic over three kinds of value:                             *)
(*   <<n, d>>, d > 0   the rational n/d in lowest terms                    *)
(*   NonFinite         a value that is certainly Inf or NaN                *)
(*   Unknown           a value the model does not determine                *)
(* Rounding is not modelled: a claim "up to tolerance" is checked as an    *)
(* exact equality of the exact results.                                    *)
(*                                                                         *)
(* Factorisations.  A Householder QR X = Q*U is kept in square-root-free   *)
(* form: B[t] is the direction of the t-th column of Q scaled by |U[t,t]|, *)
(* and T[t,l] = B[t] . x_l, so that U*b = Q^T*y reads T*b = B^T*y.         *)
(***************************************************************************)
EXTENDS Integers, Sequences, FiniteSets, TLC

(***************************************************************************)
(* Bounds of the model                                                     *)
(***************************************************************************)
\* rows of X and of Y
MaxN == 3
\* columns of X
MaxP == 2
\* entries of X
MaxCells == 6

\* entries the host puts into X and into Y
XVals == {0, 1}
YVals == {1, 2, 3}

Threads == {1, 2}

(***************************************************************************)
(* Arithmetic                                                              *)
(***************************************************************************)
NonFinite == <<0, 0>>
Unknown == <<1, 0>>
Zero == <<0, 1>>

IsExact(a) == a[2] > 0

Abs(x) == IF x < 0 THEN -x ELSE x

RECURSIVE GCD(_, _)
GCD(a, b) == IF b = 0 THEN a ELSE GCD(b, a % b)

\* n/d, d > 0, in lowest terms
Frac(n, d) == LET g == GCD(Abs(n), d) IN <<n \div g, d \div g>>

\* a + b: a sum with a non-finite term is non-finite
RAdd(a, b) ==
    IF a = NonFinite \/ b = NonFinite THEN NonFinite
    ELSE IF a = Unknown \/ b = Unknown THEN Unknown
    ELSE Frac(a[1] * b[2] + b[1] * a[2], a[2] * b[2])

RNeg(a) == IF IsExact(a) THEN <<-a[1], a[2]>> ELSE a

RSub(a, b) == RAdd(a, RNeg(b))

\* a * b: a product with a non-finite factor is non-finite (0 * Inf = NaN)
RMul(a, b) ==
    IF a = NonFinite \/ b = NonFinite THEN NonFinite
    ELSE IF a = Unknown \/ b = Unknown THEN Unknown
    ELSE Frac(a[1] * b[1], a[2] * b[2])

\* a / b as the triangular solver computes it, a * (1/b): a zero pivot
\* gives 1/0 = Inf, and Inf times anything is Inf or NaN
RDiv(a, b) ==
    IF b = Zero THEN NonFinite
    ELSE IF ~IsExact(b) THEN (IF a = NonFinite THEN NonFinite ELSE Unknown)
    ELSE IF ~IsExact(a) THEN a
    ELSE IF b[1] > 0 THEN Frac(a[1] * b[2], a[2] * b[1])
    ELSE Frac(-(a[1] * b[2]), a[2] * (-b[1]))

(***************************************************************************)
(* Vectors (sequences of values) and matrices                              *)
(* [rows |-> n, cols |-> p, a |-> <<row_1, ..., row_n>>]                   *)
(***************************************************************************)
Mat(n, p, a) == [rows |-> n, cols |-> p, a |-> a]

Fill(n, p, v) == Mat(n, p, [i \in 1..n |-> [j \in 1..p |-> v]])

\* the matrix of the integers in the rows of s
IntMat(s) == Mat(Len(s), Len(s[1]), [i \in 1..Len(s) |-> [j \in 1..Len(s[i]) |-> <<s[i][j], 1>>]])

Col(M, j) == [i \in 1..M.rows |-> M.a[i][j]]

RECURSIVE SumTo(_, _)
\* f[1] + ... + f[m]
SumTo(f, m) == IF m = 0 THEN Zero ELSE RAdd(SumTo(f, m - 1), f[m])

Dot(u, v) == SumTo([i \in 1..Len(u) |-> RMul(u[i], v[i])], Len(u))

IsZeroVec(v) == \A i \in 1..Len(v) : v[i] = Zero

\* MatMul without the zero fill of an empty product: with no inner
\* dimension the result is left as allocated
MatMulNoInit(A, B) ==
    Mat(A.rows, B.cols,
        [i \in 1..A.rows |-> [j \in 1..B.cols |->
            IF A.cols = 0 THEN Unknown
            ELSE SumTo([l \in 1..A.cols |-> RMul(A.a[i][l], B.a[l][j])], A.cols)]])

\* A * B
MatMul(A, B) ==
    Mat(A.rows, B.cols,
        [i \in 1..A.rows |-> [j \in 1..B.cols |->
            SumTo([l \in 1..A.cols |-> RMul(A.a[i][l], B.a[l][j])], A.cols)]])

\* MatSub with its operands exchanged
MatSubSwapped(A, B) ==
    Mat(A.rows, A.cols,
        [i \in 1..A.rows |-> [j \in 1..A.cols |-> RSub(B.a[i][j], A.a[i][j])]])

\* A - B
MatSub(A, B) ==
    Mat(A.rows, A.cols,
        [i \in 1..A.rows |-> [j \in 1..A.cols |-> RSub(A.a[i][j], B.a[i][j])]])

Transpose(A) ==
    Mat(A.cols, A.rows, [j \in 1..A.cols |-> [i \in 1..A.rows |-> A.a[i][j]]])

IsFinite(M) == \A i \in 1..M.rows : \A j \in 1..M.cols : IsExact(M.a[i][j])

Min(a, b) == IF a < b THEN a ELSE b

\* the permutations of 1..p, as sequences
Perms(p) == {f \in [1..p -> 1..p] : \A a, b \in 1..p : f[a] = f[b] => a = b}

(***************************************************************************)
(* Factorisations                                                          *)
(* [rows, cols, rank, B, T, perm]: rank is the size of the triangular      *)
(* block the solve uses, B its rank directions, T the rank x rank upper    *)
(* triangle, perm[t] the column of X that the t-th unknown belongs to.     *)
(***************************************************************************)
NoQR == [rows |-> 0, cols |-> 0, rank |-> 0, B |-> <<>>, T |-> <<>>, perm |-> <<>>]

RECURSIVE RejectUnscaled(_, _, _)
\* Reject without the division by the squared length of the direction
RejectUnscaled(v, B, t) ==
    IF t = 0 THEN v
    ELSE LET w == RejectUnscaled(v, B, t - 1)
             c == Dot(B[t], v)
         IN  [i \in 1..Len(v) |-> RSub(w[i], RMul(c, B[t][i]))]

RECURSIVE Reject(_, _, _)
\* what is left of v once its components along B[1..t] are removed: the
\* part of a column below the diagonal after the earlier reflectors
Reject(v, B, t) ==
    IF t = 0 THEN v
    ELSE LET w == Reject(v, B, t - 1)
             c == RDiv(Dot(B[t], v), Dot(B[t], B[t]))
         IN  [i \in 1..Len(v) |-> RSub(w[i], RMul(c, B[t][i]))]

RECURSIVE HouseholderSteps(_, _)
\* The first t reflectors of the unpivoted Householder QR of X.  fz is the
\* first column whose part below the diagonal, diagonal included, is zero
\* (0: none): its pivot is exactly 0.  From that column on the directions
\* depend on the reflectors' own irrational entries and stay Unknown.
HouseholderSteps(X, t) ==
    IF t = 0 THEN [B |-> <<>>, fz |-> 0]
    ELSE LET s == HouseholderSteps(X, t - 1)
             v == Reject(Col(X, t), s.B, t - 1)
             u == [i \in 1..X.rows |-> Unknown]
         IN  IF s.fz > 0 THEN [B |-> Append(s.B, u), fz |-> s.fz]
             ELSE IF IsZeroVec(v) THEN [B |-> Append(s.B, u), fz |-> t]
             ELSE [B |-> Append(s.B, v), fz |-> 0]

\* HouseholderQR with the part of U above its diagonal dropped
HouseholderQRDiagonal(X) ==
    LET r == Min(X.rows, X.cols)
        s == HouseholderSteps(X, r)
    IN  [rows |-> X.rows, cols |-> X.cols, rank |-> r, B |-> s.B,
         T |-> [j \in 1..r |-> [l \in 1..r |->
                 IF l # j THEN Zero
                 ELSE IF j = s.fz THEN Zero
                 ELSE Dot(s.B[j], Col(X, l))]],
         perm |-> [t \in 1..X.cols |-> t]]

\* HouseholderQR<MatrixXd> QR(X): no pivoting, no rank detection; the solve
\* uses the leading min(rows, cols) columns
HouseholderQR(X) ==
    LET r == Min(X.rows, X.cols)
        s == HouseholderSteps(X, r)
    IN  [rows |-> X.rows, cols |-> X.cols, rank |-> r, B |-> s.B,
         T |-> [j \in 1..r |-> [l \in 1..r |->
                 IF l < j THEN Zero
                 ELSE IF l = j /\ j = s.fz THEN Zero
                 ELSE Dot(s.B[j], Col(X, l))]],
         perm |-> [t \in 1..X.cols |-> t]]

RECURSIVE SparseStepsNoPivot(_, _, _)
\* SparseSteps without the test of the pivot against the threshold
SparseStepsNoPivot(X, ord, t) ==
    IF t = 0 THEN [acc |-> <<>>, B |-> <<>>, nul |-> <<>>]
    ELSE LET s == SparseStepsNoPivot(X, ord, t - 1)
             v == Reject(Col(X, ord[t]), s.B, Len(s.B))
         IN  IF Len(s.acc) < Min(X.rows, X.cols)
             THEN [acc |-> Append(s.acc, ord[t]), B |-> Append(s.B, v), nul |-> s.nul]
             ELSE [acc |-> s.acc, B |-> s.B, nul |-> Append(s.nul, ord[t])]

RECURSIVE SparseSteps(_, _, _)
\* The left-looking factorisation of the columns ord[1..t]: a column whose
\* remaining part is zero (below the pivot threshold), or that comes after
\* min(rows, cols) pivots, gets no reflector and is moved to the end.
SparseSteps(X, ord, t) ==
    IF t = 0 THEN [acc |-> <<>>, B |-> <<>>, nul |-> <<>>]
    ELSE LET s == SparseSteps(X, ord, t - 1)
             v == Reject(Col(X, ord[t]), s.B, Len(s.B))
         IN  IF Len(s.acc) < Min(X.rows, X.cols) /\ ~IsZeroVec(v)
             THEN [acc |-> Append(s.acc, ord[t]), B |-> Append(s.B, v), nul |-> s.nul]
             ELSE [acc |-> s.acc, B |-> s.B, nul |-> Append(s.nul, ord[t])]

\* SparseQR<SparseMatrix<double>, COLAMDOrdering<int>> QR(X), with ord the
\* column order the ordering method returned
SparseQR(X, ord) ==
    LET s == SparseSteps(X, ord, X.cols)
        r == Len(s.acc)
    IN  [rows |-> X.rows, cols |-> X.cols, rank |-> r, B |-> s.B,
         T |-> [j \in 1..r |-> [l \in 1..r |->
                 IF l < j THEN Zero ELSE Dot(s.B[j], Col(X, s.acc[l]))]],
         perm |-> s.acc \o s.nul]

\* COLAMDOrdering<int>: a fill-reducing column order computed from the
\* sparsity pattern of X; the heuristic is not modelled, any order is allowed
COLAMDOrdering(X) == Perms(X.cols)

RECURSIVE BackSubNoUpdate(_, _, _)
\* BackSub without the update of the right-hand side by the unknowns
\* already solved
BackSubNoUpdate(QR, c, j) ==
    IF j > QR.rank THEN <<>>
    ELSE <<RDiv(c[j], QR.T[j][j])>> \o BackSubNoUpdate(QR, c, j + 1)

RECURSIVE BackSub(_, _, _)
\* the unknowns j..rank of T * z = c, last one first
BackSub(QR, c, j) ==
    IF j > QR.rank THEN <<>>
    ELSE LET tl == BackSub(QR, c, j + 1)
             s == SumTo([m \in 1..Len(tl) |-> RMul(QR.T[j][j + m], tl[m])], Len(tl))
         IN  <<RDiv(RSub(c[j], s), QR.T[j][j])>> \o tl

\* Unpermute without the column permutation
UnpermuteForgotten(QR, z, i) == IF i <= QR.rank THEN z[i] ELSE Zero

\* the unknown of column i of X: the solved value of its pivot position, 0
\* for a column outside the triangular block
Unpermute(QR, z, i) ==
    LET t == CHOOSE t \in 1..QR.cols : QR.perm[t] = i
    IN  IF t <= QR.rank THEN z[t] ELSE Zero

\* QR.solve(Y): c = Q^T * Y, triangular solve on the leading rank rows, zeros
\* below, column permutation undone
solve(QR, Y) ==
    LET z == [k \in 1..Y.cols |->
                BackSub(QR, [j \in 1..QR.rank |-> Dot(QR.B[j], Col(Y, k))], 1)]
    IN  Mat(QR.cols, Y.cols,
            [i \in 1..QR.cols |-> [k \in 1..Y.cols |-> Unpermute(QR, z[k], i)]])

(***************************************************************************)
(* State                                                                   *)
(***************************************************************************)
VARIABLES
    pc,     \* pc[i]: where invocation i stands
    entry,  \* entry[i]: the entry point called, chosen by the representation of X
    yrep,   \* yrep[i]: the representation of the object passed as Y
    X, Y,   \* the host's storage of the two arguments, which the Maps view
    X0, Y0, \* the arguments as they were when the call was made
    qr,     \* qr[s]: the decomposition object in slot s
    beta,   \* beta[i]: the temporary QR.solve(Y)
    R,      \* R[i]: the storage Rcpp::wrap allocated for the result
    ret,    \* ret[i]: the storage the returned object lives in
    round   \* round[i]: 1 for a call on host data, 2 for a re-projection

vars == <<pc, entry, yrep, X, Y, X0, Y0, qr, beta, R, ret, round>>

NoMat == Mat(0, 0, <<>>)

Entries == {"dense", "sparse"}

\* the matrices the host builds from integers
IntMats(n, p, vals) ==
    {Mat(n, p, a) : a \in [1..n -> [1..p -> {<<v, 1>> : v \in vals}]]}

Shapes == {s \in (1..MaxN) \X (0..MaxP) : s[1] * s[2] <= MaxCells}

XInputs == UNION {IntMats(s[1], s[2], XVals) : s \in Shapes}

YInputs == UNION {IntMats(n, 1, YVals) : n \in 1..MaxN}

\* inputs of the concurrent runs
ConcX == {IntMat(<< <<1>>, <<1>>, <<1>> >>),
          IntMat(<< <<1, 0>>, <<1, 1>> >>),
          IntMat(<< <<1, 1>>, <<1, 1>> >>)}
ConcY == {IntMat(<< <<1>>, <<2>>, <<3>> >>), IntMat(<< <<1>>, <<2>> >>)}

Fresh ==
    /\ X0 = X /\ Y0 = Y
    /\ qr = [s \in Threads |-> NoQR]
    /\ beta = [i \in Threads |-> NoMat]
    /\ R = [i \in Threads |-> NoMat]
    /\ ret = [i \in Threads |-> "none"]
    /\ round = [i \in Threads |-> 1]

\* one invocation, on any input; the second thread stays out
Init ==
    \E e \in Entries, yr \in Entries, x \in XInputs, y \in YInputs :
        /\ pc = [i \in Threads |-> IF i = 1 THEN "call" ELSE "off"]
        /\ entry = [i \in Threads |-> IF i = 1 THEN e ELSE "dense"]
        /\ yrep = [i \in Threads |-> IF i = 1 THEN yr ELSE "dense"]
        /\ X = [i \in Threads |-> IF i = 1 THEN x ELSE NoMat]
        /\ Y = [i \in Threads |-> IF i = 1 THEN y ELSE NoMat]
        /\ Fresh

\* two invocations at once, each on inputs of its own
InitConc ==
    /\ pc = [i \in Threads |-> "call"]
    /\ entry \in [Threads -> Entries]
    /\ yrep = entry
    /\ X \in [Threads -> ConcX]
    /\ Y \in [Threads -> ConcY]
    /\ Fresh

(***************************************************************************)
(* Steps of an invocation                                                  *)
(***************************************************************************)
\* the decomposition object in one static slot
SharedSlot(i) == 1

\* the decomposition object is a local of the invocation
QRSlot(i) == i

\* the subtraction done in place, in the storage of Y
WrapInPlace == "Y"

\* Rcpp::wrap evaluates the expression into a matrix it allocates
WrapTarget == "R"

\* The exported wrapper converts the arguments to the parameter types: a
\* Map<MatrixXd> takes a numeric matrix, a Map<SparseMatrix<double>> a
\* dgCMatrix; anything else raises an R error before the body runs.
Enter(i) ==
    /\ pc[i] = "call"
    /\ pc' = [pc EXCEPT ![i] = IF yrep[i] = entry[i] THEN "entered" ELSE "error"]
    /\ UNCHANGED <<entry, yrep, X, Y, X0, Y0, qr, beta, R, ret, round>>

Construct(i, f) ==
    /\ pc[i] = "entered"
    /\ qr' = [qr EXCEPT ![QRSlot(i)] = f]
    /\ pc' = [pc EXCEPT ![i] = "factored"]
    /\ UNCHANGED <<entry, yrep, X, Y, X0, Y0, beta, R, ret, round>>

\* const HouseholderQR<MatrixXd> QR(X);
DenseQR(i) ==
    /\ entry[i] = "dense"
    /\ Construct(i, HouseholderQR(X[i]))

\* const SparseQR<SparseMatrix<double>, COLAMDOrdering<int>> QR(X);
SparseQRStep(i) ==
    /\ entry[i] = "sparse"
    /\ \E ord \in COLAMDOrdering(X[i]) : Construct(i, SparseQR(X[i], ord))

\* the result r leaves in the storage wrap writes
Wrap(i, r) ==
    /\ IF WrapTarget = "R"
       THEN R' = [R EXCEPT ![i] = r] /\ Y' = Y
       ELSE Y' = [Y EXCEPT ![i] = r] /\ R' = R
    /\ ret' = [ret EXCEPT ![i] = WrapTarget]

\* return Rcpp::wrap(Y - (X * QR.solve(Y)));
Return(i) ==
    /\ pc[i] = "factored"
    /\ X[i].rows = Y[i].rows
    /\ LET b == solve(qr[QRSlot(i)], Y[i])
       IN  /\ beta' = [beta EXCEPT ![i] = b]
           /\ Wrap(i, MatSub(Y[i], MatMul(X[i], b)))
    /\ pc' = [pc EXCEPT ![i] = "done"]
    /\ UNCHANGED <<entry, yrep, X, X0, Y0, qr, round>>

\* The same statement when rows(X) # rows(Y).  Nothing in the two functions
\* compares the row counts and Eigen's own checks are eigen_asserts, compiled
\* out under the -DNDEBUG of R's build: the solve and the subtraction index
\* outside their operands.  Either a matrix of arbitrary content comes back,
ReturnGarbage(i) ==
    /\ pc[i] = "factored"
    /\ X[i].rows # Y[i].rows
    /\ \E n \in {X[i].rows, Y[i].rows} :
         /\ beta' = [beta EXCEPT ![i] = Fill(X[i].cols, Y[i].cols, Unknown)]
         /\ Wrap(i, Fill(n, Y[i].cols, Unknown))
    /\ pc' = [pc EXCEPT ![i] = "done"]
    /\ UNCHANGED <<entry, yrep, X, X0, Y0, qr, round>>

\* or the process dies, and every invocation running in it with it.
Abort(i) ==
    /\ pc[i] = "factored"
    /\ X[i].rows # Y[i].rows
    /\ pc' = [j \in Threads |->
                IF pc[j] \in {"call", "entered", "factored"} THEN "aborted" ELSE pc[j]]
    /\ UNCHANGED <<entry, yrep, X, Y, X0, Y0, qr, beta, R, ret, round>>

\* The host calls the same entry point again, with the same X and with the
\* residual it got as Y.
Reproject(i) ==
    /\ pc[i] = "done"
    /\ round[i] = 1
    /\ X[i].rows = Y[i].rows
    /\ ret[i] = "R"
    /\ Y' = [Y EXCEPT ![i] = R[i]]
    /\ Y0' = [Y0 EXCEPT ![i] = R[i]]
    /\ R' = [R EXCEPT ![i] = NoMat]
    /\ beta' = [beta EXCEPT ![i] = NoMat]
    /\ ret' = [ret EXCEPT ![i] = "none"]
    /\ round' = [round EXCEPT ![i] = 2]
    /\ pc' = [pc EXCEPT ![i] = "call"]
    /\ UNCHANGED <<entry, yrep, X, X0, qr>>

Next ==
    \E i \in Threads :
        \/ Enter(i)
        \/ DenseQR(i)
        \/ SparseQRStep(i)
        \/ Return(i)
        \/ ReturnGarbage(i)
        \/ Abort(i)
        \/ Reproject(i)

Spec == Init /\ [][Next]_vars

SpecConc == InitConc /\ [][Next]_vars

(***************************************************************************)
(* Vocabulary of the properties                                            *)
(***************************************************************************)
Ended(i) == pc[i] = "done"

\* the row counts agree, as the contract of the operation requires
Conforming(i) == X[i].rows = Y[i].rows

ZeroMat(n, p) == Fill(n, p, Zero)

Identity(p) == [t \in 1..p |-> t]

\* M without its row r and its column c
Minor(M, r, c) ==
    Mat(M.rows - 1, M.cols - 1,
        [i \in 1..(M.rows - 1) |-> [j \in 1..(M.cols - 1) |->
            M.a[IF i < r THEN i ELSE i + 1][IF j < c THEN j ELSE j + 1]]])

RECURSIVE Det(_)
\* the determinant of a square matrix, by expansion along its first row
Det(M) ==
    IF M.rows = 0 THEN <<1, 1>>
    ELSE SumTo([j \in 1..M.cols |->
                  LET t == RMul(M.a[1][j], Det(Minor(M, 1, j)))
                  IN  IF j % 2 = 1 THEN t ELSE RNeg(t)], M.cols)

\* the first r columns of M
LeadingCols(M, r) == Mat(M.rows, r, [i \in 1..M.rows |-> [j \in 1..r |-> M.a[i][j]]])

\* the columns of M are linearly independent: its Gram matrix is regular
FullColumnRank(M) == Det(MatMul(Transpose(M), M)) # Zero

\* the columns the dense solve uses are linearly independent
LeadingIndependent(M) == FullColumnRank(LeadingCols(M, Min(M.rows, M.cols)))

\* a <= b, for two rationals
RLeq(a, b) == a[1] * b[2] <= b[1] * a[2]

\* the sum of the squares of the entries of M
SqNorm(M) ==
    SumTo([i \in 1..M.rows |-> Dot(M.a[i], M.a[i])], M.rows)

\* two residuals agree numerically: every entry a number, and the same one
NumEq(A, B) == IsFinite(A) /\ IsFinite(B) /\ A = B

\* the coefficient vectors a result is compared with
Competitors(p) == {Mat(p, 1, a) : a \in [1..p -> [1..1 -> {<<v, 1>> : v \in -1..3}]]}

\* vectors among which the null space of X is looked for
NullVectors(M) ==
    {z \in {Mat(M.cols, 1, a) : a \in [1..M.cols -> [1..1 -> {<<v, 1>> : v \in -1..1}]]} :
        MatMul(M, z) = ZeroMat(M.rows, 1)}

Ones3 == IntMat(<< <<1>>, <<1>>, <<1>> >>)
Ramp3 == IntMat(<< <<1>>, <<2>>, <<3>> >>)
Empty3 == Mat(3, 0, << <<>>, <<>>, <<>> >>)

\* the residual under the identity column order
NaturalResidual(Xm, Ym) ==
    MatSub(Ym, MatMul(Xm, solve(SparseQR(Xm, Identity(Xm.cols)), Ym)))

\* the residual of the dense entry point
DenseResidual(Xm, Ym) == MatSub(Ym, MatMul(Xm, solve(HouseholderQR(Xm), Ym)))

(***************************************************************************)
(* C1                                                                      *)
(***************************************************************************)
\* C1: for X of full column rank and Y with the same row count, the call
\* returns an n x k matrix R = Y - X*b where b minimises |Y - X*b|: no
\* competitor gives a smaller residual and the normal equations hold; for
\* X = (1,1,1)^T and Y = (1,2,3)^T, b = 2 and R = (-1,0,1)^T.
C1_LeastSquaresResidual ==
    \A i \in Threads :
        (Ended(i) /\ Conforming(i) /\ FullColumnRank(X[i])) =>
            /\ ret[i] = "R"
            /\ R[i].rows = Y[i].rows /\ R[i].cols = Y[i].cols
            /\ IsFinite(beta[i])
            /\ R[i] = MatSub(Y[i], MatMul(X[i], beta[i]))
            /\ MatMul(Transpose(X[i]), MatSub(Y[i], MatMul(X[i], beta[i])))
                   = ZeroMat(X[i].cols, Y[i].cols)
            /\ \A c \in Competitors(X[i].cols) :
                   RLeq(SqNorm(R[i]), SqNorm(MatSub(Y[i], MatMul(X[i], c))))
            /\ (X[i] = Ones3 /\ Y[i] = Ramp3) =>
                   /\ beta[i] = IntMat(<< <<2>> >>)
                   /\ R[i] = IntMat(<< <<-1>>, <<0>>, <<1>> >>)

C1_Witness ==
    \E i \in Threads :
        /\ Ended(i) /\ entry[i] = "dense" /\ round[i] = 1
        /\ X[i] = Ones3 /\ Y[i] = Ramp3
        /\ beta[i] = IntMat(<< <<2>> >>)
        /\ R[i] = IntMat(<< <<-1>>, <<0>>, <<1>> >>)

(***************************************************************************)
(* C2                                                                      *)
(***************************************************************************)
\* C2: for X with no column and Y with the same row count the call raises
\* no error, the fitted value X*b is the zero matrix and R equals Y.
C2_NoPredictors ==
    \A i \in Threads :
        (Conforming(i) /\ X[i].cols = 0 /\ yrep[i] = entry[i]) =>
            /\ pc[i] \notin {"error", "aborted"}
            /\ Ended(i) =>
                /\ ret[i] = "R"
                /\ MatMul(X[i], beta[i]) = ZeroMat(Y[i].rows, Y[i].cols)
                /\ R[i] = Y[i]

C2_Witness ==
    \E i \in Threads :
        /\ Ended(i) /\ round[i] = 1
        /\ X[i] = Empty3 /\ Y[i] = Ramp3 /\ R[i] = Ramp3

(***************************************************************************)
(* C3                                                                      *)
(***************************************************************************)
\* C3: for X of full column rank, dense or sparse, and Y with the same row
\* count, the returned R is orthogonal to every column of X: X^T * R = 0.
C3_Orthogonality ==
    \A i \in Threads :
        (Ended(i) /\ Conforming(i) /\ FullColumnRank(X[i])) =>
            MatMul(Transpose(X[i]), R[i]) = ZeroMat(X[i].cols, Y[i].cols)

C3_Witness ==
    \E i \in Threads :
        /\ Ended(i) /\ Conforming(i) /\ FullColumnRank(X[i])
        /\ X[i].cols = 2
        /\ R[i] # ZeroMat(Y[i].rows, Y[i].cols)
        /\ MatMul(Transpose(X[i]), R[i]) = ZeroMat(2, Y[i].cols)

(***************************************************************************)
(* C4                                                                      *)
(***************************************************************************)
\* C4, as claimed: for every X and Y with the same row count, the call on
\* (X, R), R the residual of (X, Y), returns R again.  In a re-projection
\* Y[i] holds the residual of the first call.
C4_IdempotentForEveryX ==
    \A i \in Threads :
        (Ended(i) /\ round[i] = 2) => NumEq(R[i], Y[i])

\* C4, amended: the re-projection returns R again in the sparse entry point,
\* and in the dense entry point when the leading min(n, p) columns of X are
\* linearly independent.
C4_IdempotentWhenSolvable ==
    \A i \in Threads :
        (Ended(i) /\ round[i] = 2
           /\ (entry[i] = "sparse" \/ LeadingIndependent(X[i]))) =>
            NumEq(R[i], Y[i])

C4_Witness ==
    \E i \in Threads :
        /\ Ended(i) /\ round[i] = 2
        /\ entry[i] = "dense" /\ X[i].cols = 2
        /\ Y[i] # ZeroMat(Y[i].rows, Y[i].cols)
        /\ NumEq(R[i], Y[i])

(***************************************************************************)
(* C5                                                                      *)
(***************************************************************************)
\* C5, as claimed: when rows(X) # rows(Y) the call fails at once with an
\* error: the factorisation is not run and no matrix is returned.
C5_MismatchFails ==
    \A i \in Threads :
        ~Conforming(i) => (pc[i] \in {"call", "entered", "error", "off"} /\ ret[i] = "none")

(***************************************************************************)
(* C6                                                                      *)
(***************************************************************************)
\* C6: at every point of a call, and after it whether it succeeded or not,
\* X and Y hold what they held when the call was made, and the object
\* returned lives in storage of its own, not in Y's.
C6_InputsUntouched ==
    \A i \in Threads :
        /\ X[i] = X0[i]
        /\ Y[i] = Y0[i]
        /\ Ended(i) => ret[i] = "R"
        /\ ~Ended(i) => ret[i] = "none"

C6_Witness ==
    \E i \in Threads :
        /\ Ended(i) /\ Conforming(i) /\ ret[i] = "R"
        /\ R[i] # Y[i]
        /\ X[i] = X0[i] /\ Y[i] = Y0[i]

(***************************************************************************)
(* C7                                                                      *)
(***************************************************************************)
\* the ordering methods the spec lists
SpecOrderings == {"COLAMDOrdering", "NaturalOrdering"}

\* the ordering method of the sparse entry point: a template argument
OrderingMethod == "COLAMDOrdering"

MinimumNorm(Xm, b) ==
    \A z \in NullVectors(Xm) : MatMul(Transpose(z), b) = ZeroMat(1, b.cols)

LeastSquares(Xm, Ym, b) ==
    /\ IsFinite(b)
    /\ MatMul(Transpose(Xm), MatSub(Ym, MatMul(Xm, b))) = ZeroMat(Xm.cols, Ym.cols)

\* C10, as claimed: for X rank-deficient or wider than tall, no error is
\* raised, b is the minimum-norm least-squares solution and R = Y - X*b.
C10_MinimumNormSolution ==
    \A i \in Threads :
        (Conforming(i) /\ yrep[i] = entry[i] /\ ~FullColumnRank(X[i])) =>
            /\ pc[i] \notin {"error", "aborted"}
            /\ Ended(i) =>
                /\ LeastSquares(X[i], Y[i], beta[i])
                /\ MinimumNorm(X[i], beta[i])
                /\ R[i] = MatSub(Y[i], MatMul(X[i], beta[i]))

\* the number of entries of b that are not zero
Support(b) == Cardinality({j \in 1..b.rows : b.a[j] # [k \in 1..b.cols |-> Zero]})

\* C10, amended: no error is raised and R = Y - X*b for the b of the solve;
\* b is zero outside min(n, p) columns; it is a least-squares solution in the
\* sparse entry point, and in the dense one when the leading min(n, p)
\* columns of X are linearly independent.
C10_BasicSolution ==
    \A i \in Threads :
        (Conforming(i) /\ yrep[i] = entry[i] /\ ~FullColumnRank(X[i])) =>
            /\ pc[i] \notin {"error", "aborted"}
            /\ Ended(i) =>
                /\ R[i] = MatSub(Y[i], MatMul(X[i], beta[i]))
                /\ Support(beta[i]) <= Min(X[i].rows, X[i].cols)
                /\ (entry[i] = "sparse" \/ LeadingIndependent(X[i])) =>
                       LeastSquares(X[i], Y[i], beta[i])

C10_Witness ==
    \E i \in Threads :
        /\ Ended(i) /\ Conforming(i) /\ ~FullColumnRank(X[i])
        /\ X[i].cols > X[i].rows
        /\ LeastSquares(X[i], Y[i], beta[i])
        /\ ~MinimumNorm(X[i], beta[i])

====
